---- MODULE Spec2Model ----
(***************************************************************************)
(* Model of the useLazyScriptLoader hook (src/src/index.js): the module-   *)
(* level registry _scriptStates, the records it holds, the script elements *)
(* attached to document.head, and the {isLoading, isLoaded, error} state   *)
(* of every component that uses the hook.                                  *)
(*                                                                         *)
(* One action is one turn of the JavaScript event loop: a mount (first     *)
(* render followed by its effect), a re-render with another scriptUrl (the *)
(* old effect's cleanup followed by the new effect), an unmount (the       *)
(* cleanup), and the load / error event of a script element.               *)
(***************************************************************************)
EXTENDS Integers, FiniteSets, Sequences, TLC

\* Bounds of the model.
NumConsumers == 2
MaxFetches == 2

Consumers == 1..NumConsumers
Urls == {"A", "B"}
\* '' and null/undefined: the values for which !scriptUrl is true.
FalsyUrls == {"", "NULL"}
AllUrls == Urls \cup FalsyUrls
\* Identities of the record objects / script elements created so far.
RecIds == 1..MaxFetches
\* Map.get of a missing key.
None == 0

VARIABLES
    mounted,       \* mounted[c]: component c is mounted
    scriptUrl,     \* scriptUrl[c]: the scriptUrl argument of c's last render
    view,          \* view[c]: c's useState values {isLoading, isLoaded, error}
    scriptStates,  \* the _scriptStates map: url -> record identity or None
    records,       \* the record objects, by identity
    head,          \* the script elements that are children of document.head
    inflight,      \* the script elements whose load/error event has not fired
    nextRec        \* identity of the next record object to be created

vars == <<mounted, scriptUrl, view, scriptStates, records, head, inflight, nextRec>>

----------------------------------------------------------------------------
\* Error values: null, or an Error object with a message (kept as the pieces
\* of the template string).

NullError == [isNull |-> TRUE, message |-> <<>>]
NewError(msg) == [isNull |-> FALSE, message |-> msg]

EmptyUrlError == NewError(<<"scriptUrl cannot be empty">>)
LoadErrorMUT_OtherText(url) == NewError(<<"Error loading script: ", url>>)
LoadError(url) == NewError(<<"Failed to load script: ", url>>)

\* useState(true), useState(null), useState(false)
InitialView == [isLoading |-> TRUE, isLoaded |-> FALSE, error |-> NullError]

LoadingView == [isLoading |-> TRUE, isLoaded |-> FALSE, error |-> NullError]
LoadedViewMUT_StillLoading == [isLoading |-> TRUE, isLoaded |-> TRUE, error |-> NullError]
LoadedView == [isLoading |-> FALSE, isLoaded |-> TRUE, error |-> NullError]
ErrorView(err) == [isLoading |-> FALSE, isLoaded |-> FALSE, error |-> err]

\* if (!scriptUrl)
IsFalsyMUT_NullOnly(url) == url = "NULL"
IsFalsy(url) == url \in FalsyUrls

\* The three setters of the !scriptUrl branch.
EmptyUrlViewMUT_NoError == [isLoading |-> FALSE, isLoaded |-> FALSE, error |-> NullError]
EmptyUrlView == [isLoading |-> FALSE, isLoaded |-> FALSE, error |-> EmptyUrlError]

\* const subscriber = (statusUpdate) => {...}: the view it leaves.
subscriberMUT_ErrorKeepsLoading(statusUpdate) ==
    IF statusUpdate.loaded
    THEN LoadedView
    ELSE IF ~statusUpdate.errorObj.isNull
         THEN [isLoading |-> TRUE, isLoaded |-> FALSE, error |-> statusUpdate.errorObj]
         ELSE LoadingView
subscriber(statusUpdate) ==
    IF statusUpdate.loaded
    THEN LoadedView
    ELSE IF ~statusUpdate.errorObj.isNull
         THEN ErrorView(statusUpdate.errorObj)
         ELSE LoadingView

\* The argument handleLoad passes to every subscriber.
handleLoadUpdate == [loaded |-> TRUE, errorObj |-> NullError]

\* The argument handleError passes to every subscriber.
handleErrorUpdate(errorObj) == [loaded |-> FALSE, errorObj |-> errorObj]

----------------------------------------------------------------------------
\* The registry side of the state, bundled so that a cleanup and an effect
\* can be composed within one turn.

NoRecord == [status |-> "none", src |-> "", subscribers |-> {}, error |-> NullError]

Reg == [scriptStates |-> scriptStates, records |-> records, head |-> head,
        inflight |-> inflight, nextRec |-> nextRec]

\* let record = _scriptStates.get(scriptUrl)
LookupRecordMUT_Miss(S, url) == None
LookupRecordMUT_RetryFailed(S, url) ==
    IF S.scriptStates[url] # None /\ S.records[S.scriptStates[url]].status = "error"
    THEN None
    ELSE S.scriptStates[url]
LookupRecordMUT_MissWhenEmpty(S, url) ==
    IF S.scriptStates[url] # None /\ S.records[S.scriptStates[url]].subscribers = {}
    THEN None
    ELSE S.scriptStates[url]
LookupRecord(S, url) == S.scriptStates[url]

\* The effect takes the 'New script' branch.
NeedsNewRecord(S, url) == ~IsFalsy(url) /\ LookupRecord(S, url) = None

\* The switch on record.status: which statuses add the subscriber.
AddsSubscriber(status) == status = "loading"

\* const newRecord = {status: 'loading', scriptElement, subscribers, error: null}
NewRecordMUT_StartsLoaded(c, url) ==
    [status |-> "loaded", src |-> url, subscribers |-> {c}, error |-> NullError]
NewRecord(c, url) ==
    [status |-> "loading", src |-> url, subscribers |-> {c}, error |-> NullError]

\* The view the effect body sets for scriptUrl = url.
EffectView(S, url) ==
    IF IsFalsy(url)
    THEN EmptyUrlView
    ELSE LET rec == LookupRecord(S, url) IN
         IF rec # None
         THEN CASE S.records[rec].status = "loaded" -> LoadedView
                [] S.records[rec].status = "error" -> ErrorView(S.records[rec].error)
                [] OTHER -> LoadingView
         ELSE LoadingView

\* The registry after the effect body ran for component c, scriptUrl = url.
EffectReg(S, c, url) ==
    IF IsFalsy(url)
    THEN S
    ELSE LET rec == LookupRecord(S, url) IN
         IF rec # None
         THEN IF AddsSubscriber(S.records[rec].status)
              THEN [S EXCEPT !.records[rec].subscribers = @ \cup {c}]
              ELSE S
         ELSE LET id == S.nextRec IN
              [S EXCEPT !.records[id] = NewRecord(c, url),
                        !.scriptStates[url] = id,
                        !.head = @ \cup {id},
                        !.inflight = @ \cup {id},
                        !.nextRec = id + 1]

\* currentRecord.subscribers.size === 0 && currentRecord.status !== 'loading'
ShouldRemoveMUT_LoadedOnly(rec) == rec.subscribers = {} /\ rec.status = "loaded"
ShouldRemoveMUT_AnyStatus(rec) == rec.subscribers = {}
ShouldRemove(rec) == rec.subscribers = {} /\ rec.status # "loading"

\* The registry after the cleanup of c's effect for scriptUrl = url.  The
\* !scriptUrl branch returns no cleanup function.
CleanupRegMUT_KeepSubscriber(S, c, url) ==
    IF IsFalsy(url)
    THEN S
    ELSE LET cur == S.scriptStates[url] IN
         IF cur = None
         THEN S
         ELSE IF ShouldRemove(S.records[cur])
              THEN [S EXCEPT !.head = @ \ {cur},
                             !.scriptStates[url] = None]
              ELSE S
CleanupRegMUT_NoRemoveChild(S, c, url) ==
    IF IsFalsy(url)
    THEN S
    ELSE LET cur == S.scriptStates[url] IN
         IF cur = None
         THEN S
         ELSE LET S1 == [S EXCEPT !.records[cur].subscribers = @ \ {c}] IN
              IF ShouldRemove(S1.records[cur])
              THEN [S1 EXCEPT !.scriptStates[url] = None]
              ELSE S1
CleanupRegMUT_CancelsFetch(S, c, url) ==
    IF IsFalsy(url)
    THEN S
    ELSE LET cur == S.scriptStates[url] IN
         IF cur = None
         THEN S
         ELSE LET S1 == [S EXCEPT !.records[cur].subscribers = @ \ {c}] IN
              IF S1.records[cur].subscribers = {}
              THEN [S1 EXCEPT !.head = @ \ {cur},
                              !.inflight = @ \ {cur},
                              !.scriptStates[url] = None]
              ELSE S1
CleanupRegMUT_SweepsIdle(S, c, url) ==
    IF IsFalsy(url)
    THEN S
    ELSE LET cur == S.scriptStates[url] IN
         IF cur = None
         THEN S
         ELSE LET S1 == [S EXCEPT !.records[cur].subscribers = @ \ {c}]
                  idle == {q \in RecIds : /\ \E k \in Urls : S1.scriptStates[k] = q
                                          /\ ShouldRemove(S1.records[q])}
              IN [S1 EXCEPT !.head = @ \ idle,
                            !.scriptStates = [k \in DOMAIN @ |->
                                                 IF @[k] \in idle THEN None ELSE @[k]]]
CleanupReg(S, c, url) ==
    IF IsFalsy(url)
    THEN S
    ELSE LET cur == S.scriptStates[url] IN
         IF cur = None
         THEN S
         ELSE LET S1 == [S EXCEPT !.records[cur].subscribers = @ \ {c}] IN
              IF ShouldRemove(S1.records[cur])
              THEN [S1 EXCEPT !.head = @ \ {cur},
                              !.scriptStates[url] = None]
              ELSE S1

\* useEffect(..., [scriptUrl]): the effect re-runs when the dependency differs
\* from the one of the previous render.
DepsChangedMUT_Always(prev, cur) == TRUE
DepsChanged(prev, cur) == prev # cur

\* newRecord.subscribers.forEach: the subscribers a completion event calls.
SubscribersMUT_Shared(r) == UNION {records[q].subscribers : q \in RecIds}
SubscribersMUT_SkipOne(r) ==
    IF records[r].subscribers = {}
    THEN {}
    ELSE records[r].subscribers \ {CHOOSE c \in records[r].subscribers : TRUE}
Subscribers(r) == records[r].subscribers

SetReg(S) ==
    /\ scriptStates' = S.scriptStates
    /\ records' = S.records
    /\ head' = S.head
    /\ inflight' = S.inflight
    /\ nextRec' = S.nextRec

----------------------------------------------------------------------------
Init ==
    /\ mounted = [c \in Consumers |-> FALSE]
    /\ scriptUrl = [c \in Consumers |-> "NULL"]
    /\ view = [c \in Consumers |-> InitialView]
    /\ scriptStates = [u \in AllUrls |-> None]
    /\ records = [r \in RecIds |-> NoRecord]
    /\ head = {}
    /\ inflight = {}
    /\ nextRec = 1

\* Component c mounts with scriptUrl = url: first render, then the effect.
Mount(c, url) ==
    /\ ~mounted[c]
    /\ NeedsNewRecord(Reg, url) => nextRec <= MaxFetches
    /\ mounted' = [mounted EXCEPT ![c] = TRUE]
    /\ scriptUrl' = [scriptUrl EXCEPT ![c] = url]
    /\ view' = [view EXCEPT ![c] = EffectView(Reg, url)]
    /\ SetReg(EffectReg(Reg, c, url))

\* Component c re-renders with another scriptUrl: the cleanup of the old
\* effect runs, then the effect for the new value.
ChangeKey(c, url) ==
    /\ mounted[c]
    /\ DepsChanged(scriptUrl[c], url)
    /\ LET S1 == CleanupReg(Reg, c, scriptUrl[c]) IN
       /\ NeedsNewRecord(S1, url) => S1.nextRec <= MaxFetches
       /\ view' = [view EXCEPT ![c] = EffectView(S1, url)]
       /\ SetReg(EffectReg(S1, c, url))
    /\ scriptUrl' = [scriptUrl EXCEPT ![c] = url]
    /\ UNCHANGED mounted

\* Component c unmounts: the cleanup runs and c's state is discarded.
Unmount(c) ==
    /\ mounted[c]
    /\ SetReg(CleanupReg(Reg, c, scriptUrl[c]))
    /\ mounted' = [mounted EXCEPT ![c] = FALSE]
    /\ scriptUrl' = [scriptUrl EXCEPT ![c] = "NULL"]
    /\ view' = [view EXCEPT ![c] = InitialView]

\* Component c re-renders with the scriptUrl it already has: the dependency
\* array is unchanged, so neither the cleanup nor the effect runs and the hook
\* returns the same state.
Rerender(c) ==
    /\ mounted[c]
    /\ ~DepsChanged(scriptUrl[c], scriptUrl[c])
    /\ UNCHANGED vars

\* The 'load' event of script element r: handleLoad.
HandleLoad(r) ==
    /\ r \in inflight
    /\ inflight' = inflight \ {r}
    /\ records' = [records EXCEPT ![r].status = "loaded"]
    /\ view' = [c \in Consumers |->
                  IF c \in Subscribers(r)
                  THEN subscriber(handleLoadUpdate)
                  ELSE view[c]]
    /\ UNCHANGED <<mounted, scriptUrl, scriptStates, head, nextRec>>

\* The 'error' event of script element r: handleError.
HandleErrorMUT_NoStore(r) ==
    /\ r \in inflight
    /\ inflight' = inflight \ {r}
    /\ LET errorObj == LoadError(records[r].src) IN
       /\ records' = [records EXCEPT ![r].status = "error"]
       /\ view' = [c \in Consumers |->
                     IF c \in Subscribers(r)
                     THEN subscriber(handleErrorUpdate(errorObj))
                     ELSE view[c]]
    /\ UNCHANGED <<mounted, scriptUrl, scriptStates, head, nextRec>>
HandleError(r) ==
    /\ r \in inflight
    /\ inflight' = inflight \ {r}
    /\ LET errorObj == LoadError(records[r].src) IN
       /\ records' = [records EXCEPT ![r].status = "error", ![r].error = errorObj]
       /\ view' = [c \in Consumers |->
                     IF c \in Subscribers(r)
                     THEN subscriber(handleErrorUpdate(errorObj))
                     ELSE view[c]]
    /\ UNCHANGED <<mounted, scriptUrl, scriptStates, head, nextRec>>

Next ==
    \/ \E c \in Consumers, url \in AllUrls : Mount(c, url)
    \/ \E c \in Consumers, url \in AllUrls : ChangeKey(c, url)
    \/ \E c \in Consumers : Rerender(c)
    \/ \E c \in Consumers : Unmount(c)
    \/ \E r \in RecIds : HandleLoad(r)
    \/ \E r \in RecIds : HandleError(r)

Spec == Init /\ [][Next]_vars

\* The browser delivers the load or the error event of every script element
\* that was appended to the document.
FairSpec ==
    Spec /\ \A r \in RecIds : WF_vars(HandleLoad(r) \/ HandleError(r))

----------------------------------------------------------------------------
TypeOK ==
    /\ mounted \in [Consumers -> BOOLEAN]
    /\ scriptUrl \in [Consumers -> AllUrls]
    /\ scriptStates \in [AllUrls -> RecIds \cup {None}]
    /\ head \subseteq RecIds
    /\ inflight \subseteq RecIds
    /\ nextRec \in 1..(MaxFetches + 1)

----------------------------------------------------------------------------
\* Vocabulary of the properties.

\* The components that are mounted with scriptUrl = k.
InterestedIn(k) == {c \in Consumers : mounted[c] /\ scriptUrl[c] = k}

\* In this step component c starts using k (mount, or change of scriptUrl).
SubscribesTo(c, k) ==
    /\ ~mounted[c] \/ scriptUrl[c] # k
    /\ mounted'[c] /\ scriptUrl'[c] = k

\* In this step component c stops using k (unmount, or change of scriptUrl).
UnsubscribesFrom(c, k) ==
    /\ mounted[c] /\ scriptUrl[c] = k
    /\ ~mounted'[c] \/ scriptUrl'[c] # k

\* In this step component c keeps using k.
StaysOn(c, k) ==
    /\ mounted[c] /\ scriptUrl[c] = k
    /\ mounted'[c] /\ scriptUrl'[c] = k

\* In this step the load or error event of element r is delivered.
Completes(r) == r \in inflight /\ r \notin inflight'

\* The script elements ever created with src = k, and those still loading.
Created(k) == {r \in RecIds : records[r].src = k}
Fetching(k) == {r \in inflight : records[r].src = k}
CreatedNext(k) == {r \in RecIds : records'[r].src = k}
FetchingNext(k) == {r \in inflight' : records'[r].src = k}

----------------------------------------------------------------------------
\* C1: however many components mount with url k before k's fetch completes,
\* exactly one script element is created and appended for k: at most one
\* element per url is loading at any time, a mount or url change that finds
\* k loading creates no element, and one that finds no record creates
\* exactly one, which is appended to document.head.
C1_OneFetchPerKey ==
    [][\A k \in Urls :
        /\ Cardinality(FetchingNext(k)) <= 1
        /\ (\E c \in Consumers : SubscribesTo(c, k)) /\ Fetching(k) # {}
              => /\ CreatedNext(k) = Created(k)
                 /\ scriptStates'[k] = scriptStates[k]
                 /\ scriptStates[k] \in Fetching(k)
        /\ (\E c \in Consumers : SubscribesTo(c, k)) /\ scriptStates[k] = None
              => /\ Cardinality(CreatedNext(k) \ Created(k)) = 1
                 /\ CreatedNext(k) \ Created(k) = FetchingNext(k)
                 /\ FetchingNext(k) \subseteq head'
      ]_vars

\* All components wait on one element of a url, the only one made for it.
C1_Witness ==
    \E k \in Urls :
        /\ Cardinality(InterestedIn(k)) = NumConsumers
        /\ Cardinality(Created(k)) = 1
        /\ Fetching(k) = Created(k)
        /\ \A r \in Created(k) : records[r].subscribers = InterestedIn(k)

\* C2 (as claimed): when the fetch for k succeeds, every component using k
\* at that moment gets the view loaded=true, loading=false, error=none; a
\* component that starts using k once its record is loaded gets that view
\* too, and keeps it for as long as it uses k.
C2_LoadedSeenByAll ==
    [][/\ \A r \in RecIds :
            Completes(r) /\ records'[r].status = "loaded"
              => \A c \in InterestedIn(records[r].src) : view'[c] = LoadedView
       /\ \A k \in Urls : \A c \in Consumers :
            /\ SubscribesTo(c, k) /\ scriptStates[k] # None
                 /\ records[scriptStates[k]].status = "loaded"
                 => view'[c] = LoadedView
            /\ StaysOn(c, k) /\ view[c] = LoadedView /\ ~(\E r \in RecIds : Completes(r))
                 => view'[c] = LoadedView
      ]_vars

\* C3 (as claimed): when the fetch for k fails with reason R, every
\* component using k at that moment gets loaded=false, loading=false,
\* error=R, the same R for all.
C3_ErrorSeenByAll ==
    [][\A r \in RecIds :
          Completes(r) /\ records'[r].status = "error"
            => /\ ~records'[r].error.isNull
               /\ \A c \in InterestedIn(records[r].src) :
                     view'[c] = ErrorView(records'[r].error)
      ]_vars

\* C4 (as claimed): when a component stops using k while another component
\* still uses k, k's script element stays in document.head and k's record
\* stays in the registry.
C4_NoTeardownWhileUsed ==
    [][\A k \in Urls : \A c \in Consumers :
          /\ UnsubscribesFrom(c, k)
          /\ \E d \in Consumers \ {c} : StaysOn(d, k)
          /\ scriptStates[k] # None
          => /\ scriptStates'[k] = scriptStates[k]
             /\ scriptStates[k] \in head'
      ]_vars

\* C5: when a component stops using k, k's record is loaded or failed and
\* no other subscriber is left in it, the script element is detached and
\* the record removed in that step; a mount or url change that finds no
\* record for k creates a new loading record and a new attached element.
C5_LastUnsubscribeRemoves ==
    [][\A k \in Urls : \A c \in Consumers :
          LET r == scriptStates[k] IN
          /\ ( /\ UnsubscribesFrom(c, k)
               /\ r # None
               /\ records[r].status \in {"loaded", "error"}
               /\ records[r].subscribers \ {c} = {} )
             => /\ scriptStates'[k] = None
                /\ r \notin head'
          /\ ( /\ SubscribesTo(c, k)
               /\ r = None )
             => /\ scriptStates'[k] = nextRec
                /\ records[nextRec] = NoRecord
                /\ records'[nextRec].status = "loading"
                /\ records'[nextRec].src = k
                /\ nextRec \in inflight'
                /\ nextRec \in head'
      ]_vars

\* A url is being fetched a second time after its first element, loaded or
\* failed, was detached.
C5_Witness ==
    \E k \in Urls : \E r \in RecIds :
        /\ scriptStates[k] # None
        /\ scriptStates[k] # r
        /\ records[r].src = k
        /\ records[r].status \in {"loaded", "error"}
        /\ r \notin head
        /\ scriptStates[k] \in head
        /\ records[scriptStates[k]].status = "loading"

\* C6: when a component stops using k while k's record is loading and no
\* other subscriber is left in it, the element stays attached and the record
\* stays in the registry, loading, with an empty subscriber set; the load or
\* error event of an element whose record has no subscriber changes no view.
C6_PendingSurvivesLastUnsubscribe ==
    [][/\ \A k \in Urls : \A c \in Consumers :
            LET r == scriptStates[k] IN
            ( /\ UnsubscribesFrom(c, k)
              /\ r # None
              /\ records[r].status = "loading"
              /\ records[r].subscribers \ {c} = {} )
            => /\ scriptStates'[k] = r
               /\ r \in head'
               /\ r \in inflight'
               /\ records'[r].status = "loading"
               /\ records'[r].subscribers = {}
       /\ \A r \in RecIds :
            Completes(r) /\ records[r].subscribers = {}
            => /\ view' = view
               /\ records'[r].status \in {"loaded", "error"}
               /\ scriptStates' = scriptStates
               /\ head' = head
      ]_vars

\* A fetch completed after its last subscriber left: the record is in the
\* registry, loaded or failed, with no subscriber and its element attached.
C6_Witness ==
    \E k \in Urls :
        /\ scriptStates[k] # None
        /\ records[scriptStates[k]].status \in {"loaded", "error"}
        /\ records[scriptStates[k]].subscribers = {}
        /\ scriptStates[k] \in head
        /\ InterestedIn(k) = {}

\* C7 (as claimed): a mount or url change to a url whose record exists, in
\* any status, adds the component to the record's subscriber set and gives
\* it the record's current status at once.
C7_SubscribeExistingAdds ==
    [][\A k \in Urls : \A c \in Consumers :
          LET r == scriptStates[k] IN
          SubscribesTo(c, k) /\ r # None
          => /\ c \in records'[r].subscribers
             /\ records[r].status = "loading" => view'[c] = LoadingView
             /\ records[r].status = "loaded" => view'[c] = LoadedView
             /\ records[r].status = "error" => view'[c] = ErrorView(records[r].error)
      ]_vars

\* C8: a component whose scriptUrl is '' or null touches no registry state:
\* its mount creates no record, no element and no subscriber, it is in no
\* subscriber set while it is mounted, and its unmount removes nothing.
C8_EmptyKeyNoRegistry ==
    [][\A c \in Consumers :
          /\ mounted'[c] /\ scriptUrl'[c] \in FalsyUrls
             => /\ \A r \in RecIds : c \notin records'[r].subscribers
                /\ \A u \in FalsyUrls : scriptStates'[u] = None
          /\ ~mounted[c] /\ mounted'[c] /\ scriptUrl'[c] \in FalsyUrls
             => UNCHANGED <<scriptStates, records, head, inflight, nextRec>>
          /\ mounted[c] /\ scriptUrl[c] \in Urls
                /\ mounted'[c] /\ scriptUrl'[c] \in FalsyUrls
             => /\ nextRec' = nextRec
                /\ head' \subseteq head
                /\ inflight' = inflight
                /\ \A r \in RecIds : records'[r].subscribers \subseteq records[r].subscribers
          /\ mounted[c] /\ scriptUrl[c] \in FalsyUrls /\ ~mounted'[c]
             => UNCHANGED <<scriptStates, records, head, inflight, nextRec>>
      ]_vars

\* A component is mounted with '' while another url has a record with a
\* subscriber, and nothing was created for ''.
C8_Witness ==
    \E c \in Consumers :
        /\ mounted[c] /\ scriptUrl[c] = ""
        /\ \E k \in Urls : scriptStates[k] # None /\ records[scriptStates[k]].subscribers # {}
        /\ scriptStates[""] = None
        /\ \A r \in RecIds : records[r].src # "" \/ records[r] = NoRecord

LastCreated(k) == IF Created(k) = {} THEN None
                  ELSE CHOOSE r \in Created(k) : \A q \in Created(k) : q <= r

\* The records whose subscriber set holds component c, after the step.
MemberOfNext(c) == {r \in RecIds : c \in records'[r].subscribers}

C12_SwitchMidLoad ==
    [][\A c \in Consumers : \A a \in Urls : \A b \in Urls \ {a} :
          LET r == scriptStates[a] IN
          ( /\ mounted[c] /\ scriptUrl[c] = a
            /\ mounted'[c] /\ scriptUrl'[c] = b
            /\ r # None
            /\ records[r].status = "loading" )
          => /\ Cardinality(records'[r].subscribers) = Cardinality(records[r].subscribers) - 1
             /\ scriptStates'[b] # None
             /\ MemberOfNext(c) = {scriptStates'[b]}
             /\ scriptStates'[a] = r
             /\ r \in head'
             /\ r \in inflight'
             /\ records'[r].status = "loading"
      ]_vars

\* C13: the cleanup for A runs before the effect for B, so after every step
\* each component is in at most one record's subscriber set; when the sole
\* subscriber of a loaded A changes to B, A's element is detached and A's
\* record removed, and if B has no record a new one is created and fetched
\* with the component as its subscriber and its view back at loading.
C13_SwitchCleansBeforeSubscribe ==
    [][/\ \A c \in Consumers : Cardinality(MemberOfNext(c)) <= 1
       /\ \A c \in Consumers : \A a \in Urls : \A b \in Urls \ {a} :
            LET r == scriptStates[a] IN
            ( /\ mounted[c] /\ scriptUrl[c] = a
              /\ mounted'[c] /\ scriptUrl'[c] = b
              /\ r # None
              /\ records[r].status = "loaded"
              /\ records[r].subscribers = {c} )
            => /\ scriptStates'[a] = None
               /\ r \notin head'
               /\ records'[r].subscribers = {}
               /\ scriptStates[b] = None
                    => /\ scriptStates'[b] = nextRec
                       /\ nextRec \in head'
                       /\ nextRec \in inflight'
                       /\ records'[nextRec].subscribers = {c}
                       /\ view'[c] = LoadingView
      ]_vars

\* A component left a loaded url, whose element was detached, and now waits
\* for the element of another url, which it caused to be created.
C13_Witness ==
    \E c \in Consumers : \E a \in Urls : \E b \in Urls \ {a} :
        /\ mounted[c] /\ scriptUrl[c] = b
        /\ view[c] = LoadingView
        /\ scriptStates[a] = None
        /\ \E r \in Created(a) : records[r].status = "loaded" /\ r \notin head
        /\ scriptStates[b] # None
        /\ records[scriptStates[b]].subscribers = {c}
        /\ scriptStates[b] \in head

\* C14 (as claimed): once no component uses k and k's fetch has completed,
\* k's record is not in the registry and k's script element is not in
\* document.head.
C14_NoRecordWithoutUsers ==
    \A k \in Urls :
        InterestedIn(k) = {} /\ Fetching(k) = {}
        => /\ scriptStates[k] = None
           /\ \A r \in Created(k) : r \notin head

\* C15: for every url there is at most one record in the registry and at
\* most one script element in document.head; the attached element is the one
\* of the registry's record, and only that record has subscribers or a
\* pending event.
C15_OneRecordOneElement ==
    \A k \in Urls :
        /\ Cardinality({r \in head : records[r].src = k}) <= 1
        /\ scriptStates[k] # None => records[scriptStates[k]].src = k
        /\ \A r \in Created(k) :
              r \in head \/ r \in inflight \/ records[r].subscribers # {}
              => scriptStates[k] = r

\* A url was fetched twice; one of its two elements is attached and in use.
C15_Witness ==
    \E k \in Urls :
        /\ Cardinality(Created(k)) = 2
        /\ Cardinality(head \cap Created(k)) = 1
        /\ InterestedIn(k) # {}

\* C16: the load or error event of an element changes only that element's
\* record and the views of that record's subscribers, which use its url:
\* every other record, the registry, document.head and the view of every
\* component on another url are unchanged.
C16_CompletionIsLocal ==
    [][\A r \in RecIds :
          Completes(r)
          => /\ \A q \in RecIds \ {r} : records'[q] = records[q]
             /\ records'[r].src = records[r].src
             /\ records'[r].subscribers = records[r].subscribers
             /\ records[r].subscribers \subseteq InterestedIn(records[r].src)
             /\ \A c \in Consumers :
                   c \notin records[r].subscribers => view'[c] = view[c]
             /\ UNCHANGED <<scriptStates, head, nextRec, mounted, scriptUrl>>
      ]_vars

\* One url completed while a component on the other url is still loading.
C16_Witness ==
    \E a \in Urls : \E b \in Urls \ {a} : \E c \in Consumers :
        /\ scriptStates[a] # None
        /\ records[scriptStates[a]].status \in {"loaded", "error"}
        /\ records[scriptStates[a]].subscribers # {}
        /\ scriptStates[b] # None
        /\ records[scriptStates[b]].status = "loading"
        /\ mounted[c] /\ scriptUrl[c] = b /\ view[c] = LoadingView

\* C17: a render that changes no component's scriptUrl, mounts and unmounts
\* nothing and delivers no event, leaves every view, the registry, the
\* records and document.head unchanged and starts no fetch.
C17_SameKeyRerenderIsNoop ==
    [][( /\ mounted' = mounted
         /\ scriptUrl' = scriptUrl
         /\ ~(\E r \in RecIds : Completes(r)) )
       => UNCHANGED <<view, scriptStates, records, head, inflight, nextRec>>
      ]_vars

\* A component is the sole subscriber of a loaded url and another fetch could
\* still be started: a re-run of its effect would be visible.
C17_Witness ==
    \E c \in Consumers : \E k \in Urls :
        /\ mounted[c] /\ scriptUrl[c] = k
        /\ scriptStates[k] # None
        /\ records[scriptStates[k]].status = "loaded"
        /\ records[scriptStates[k]].subscribers = {c}
        /\ view[c] = LoadedView
        /\ nextRec <= MaxFetches

C19_FreshSubscribeRefetches ==
    [][\A k \in Urls : \A c \in Consumers :
          ( /\ SubscribesTo(c, k)
            /\ InterestedIn(k) = {}
            /\ LastCreated(k) # None
            /\ records[LastCreated(k)].status = "error" )
          => /\ scriptStates'[k] # None
             /\ scriptStates'[k] \notin Created(k)
             /\ records'[scriptStates'[k]].status = "loading"
             /\ scriptStates'[k] \in inflight'
             /\ view'[c] = LoadingView
      ]_vars

\* C20 (as claimed): for every component with a non-empty url exactly one of
\* isLoading and isLoaded is true.
C20_ExactlyOneOfLoadingLoaded ==
    \A c \in Consumers :
        mounted[c] /\ scriptUrl[c] \in Urls
        => view[c].isLoading # view[c].isLoaded

\* C20 (amended): for every component with a non-empty url at most one of
\* isLoading and isLoaded is true, and exactly one is true unless its error
\* is set, in which case both are false.
C20_OneOfLoadingLoadedUnlessError ==
    \A c \in Consumers :
        mounted[c] /\ scriptUrl[c] \in Urls
        => /\ ~(view[c].isLoading /\ view[c].isLoaded)
           /\ view[c].error.isNull => view[c].isLoading # view[c].isLoaded
           /\ ~view[c].error.isNull => ~view[c].isLoading /\ ~view[c].isLoaded

\* A component on a url shows its error, another one on a url shows loaded.
C20_Witness ==
    \E c \in Consumers : \E d \in Consumers :
        /\ mounted[c] /\ scriptUrl[c] \in Urls
        /\ ~view[c].error.isNull /\ ~view[c].isLoading /\ ~view[c].isLoaded
        /\ mounted[d] /\ scriptUrl[d] \in Urls /\ view[d].isLoaded

\* The view 'no resource requested': nothing loading, nothing loaded, no error.
NoKeyView == [isLoading |-> FALSE, isLoaded |-> FALSE, error |-> NullError]

\* The status a view mirrors.
Mirrors(v, rec) ==
    \/ rec.status = "loading" /\ v = LoadingView
    \/ rec.status = "loaded" /\ v = LoadedView
    \/ rec.status = "error" /\ ~rec.error.isNull /\ v = ErrorView(rec.error)

\* C21: a component's view is loading=false, loaded=false, error=none only
\* if no url was ever supplied to it: a component that gets a url does not
\* have that view, and a mounted component that has a url or has another
\* view does not have that view after the step, whatever its url becomes.
C21_NoKeyViewOnlyWithoutKey ==
    [][\A c \in Consumers :
          /\ mounted'[c] /\ scriptUrl'[c] \in Urls => view'[c] # NoKeyView
          /\ mounted[c] /\ mounted'[c] /\ (scriptUrl[c] \in Urls \/ view[c] # NoKeyView)
                => view'[c] # NoKeyView
      ]_vars

\* A component that used a url and saw it fail now has an empty url.
C21_Witness ==
    \E c \in Consumers :
        /\ mounted[c] /\ scriptUrl[c] \in FalsyUrls
        /\ view[c] # NoKeyView
        /\ \A d \in Consumers \ {c} : ~mounted[d]
        /\ \E r \in RecIds : records[r].status = "error" /\ r \notin head

\* C22: in every component's view isLoading and isLoaded are never both
\* true, and error is null whenever isLoading or isLoaded is true.
C22_ViewFlagsConsistent ==
    \A c \in Consumers :
        /\ ~(view[c].isLoading /\ view[c].isLoaded)
        /\ view[c].isLoading \/ view[c].isLoaded => view[c].error.isNull

\* One component shows loaded, another one the error of an empty url.
C22_Witness ==
    \E c \in Consumers : \E d \in Consumers :
        /\ mounted[c] /\ view[c].isLoaded
        /\ mounted[d] /\ scriptUrl[d] \in FalsyUrls /\ ~view[d].error.isNull

\* C23: a record is created with status loading and its status changes at
\* most once afterwards, from loading to loaded or from loading to error; no
\* step changes the status of a loaded or failed record.
C23_StatusChangesOnce ==
    [][\A r \in RecIds :
          records'[r].status # records[r].status
          => \/ records[r].status = "none" /\ records'[r].status = "loading"
             \/ /\ records[r].status = "loading"
                /\ records'[r].status \in {"loaded", "error"}
                /\ Completes(r)
      ]_vars

\* One record ended loaded and another one ended failed.
C23_Witness ==
    \E r \in RecIds : \E q \in RecIds :
        /\ records[r].status = "loaded"
        /\ records[q].status = "error"

\* C24: a record carries an error value if and only if its status is error,
\* and once set the error value of a record never changes or clears.
C24_FailureIffFailed ==
    [][\A r \in RecIds :
          /\ ~records'[r].error.isNull <=> records'[r].status = "error"
          /\ ~records[r].error.isNull => records'[r].error = records[r].error
      ]_vars

\* A failed record with its error lost its subscribers and was removed from
\* the registry; the object still holds the error.
C24_Witness ==
    \E r \in RecIds :
        /\ records[r].status = "error"
        /\ ~records[r].error.isNull
        /\ scriptStates[records[r].src] # r
        /\ records[r].subscribers = {}

\* C25: no record is removed from the registry while it is loading: every
\* element whose event is still to come belongs to the record that the
\* registry holds for its url, which is loading and attached, so the event
\* always finds its record.
C25_PendingNeverRemoved ==
    \A r \in RecIds :
        /\ r \in inflight
           => /\ records[r].src \in Urls
              /\ scriptStates[records[r].src] = r
              /\ records[r].status = "loading"
              /\ r \in head
        /\ records[r].status = "loading" => r \in inflight

\* A url is loading and attached although no component uses any url.
C25_Witness ==
    /\ \A c \in Consumers : ~mounted[c] \/ scriptUrl[c] \in FalsyUrls
    /\ \E r \in inflight : records[r].subscribers = {} /\ scriptStates[records[r].src] = r

\* C26 (as claimed): for every url with a record, the record's subscriber
\* set is exactly the set of mounted components whose url it is.
C26_SubscribersAreUsers ==
    \A k \in Urls :
        scriptStates[k] # None
        => records[scriptStates[k]].subscribers = InterestedIn(k)

\* C27 (as claimed): for every mounted component with a non-empty url a
\* record for that url exists and the component's view mirrors the record's
\* status: loading, loaded, or error with the record's error.
C27_ViewMirrorsRecord ==
    \A c \in Consumers :
        mounted[c] /\ scriptUrl[c] \in Urls
        => /\ scriptStates[scriptUrl[c]] # None
           /\ Mirrors(view[c], records[scriptStates[scriptUrl[c]]])

\* C28: if the event of every appended element is eventually delivered,
\* every record that is loading eventually is loaded or failed, also when it
\* has no subscriber left.
C28_EveryFetchCompletes ==
    \A r \in RecIds :
        (records[r].status = "loading") ~> (records[r].status \in {"loaded", "error"})

\* Every record that could be created has completed and no component is
\* mounted.
C28_Witness ==
    /\ \A c \in Consumers : ~mounted[c]
    /\ \A r \in RecIds : records[r].status \in {"loaded", "error"}
    /\ \E r \in RecIds : scriptStates[records[r].src] = r

\* C29: the event of an element changes the record's status and notifies
\* every subscriber of that moment in the same step: each gets the view of
\* the new status, none is skipped, and the subscriber set, the mounted
\* components and their urls are the same before and after.
C29_CompletionNotifiesAllInOneTurn ==
    [][\A r \in RecIds :
          Completes(r)
          => /\ records[r].status = "loading"
             /\ records'[r].status \in {"loaded", "error"}
             /\ \A c \in records[r].subscribers : Mirrors(view'[c], records'[r])
             /\ records'[r].subscribers = records[r].subscribers
             /\ mounted' = mounted
             /\ scriptUrl' = scriptUrl
      ]_vars

\* Every component was a subscriber of a record when it completed.
C29_Witness ==
    \E r \in RecIds :
        /\ records[r].status \in {"loaded", "error"}
        /\ records[r].subscribers = Consumers
        /\ \A c \in Consumers : Mirrors(view[c], records[r])

\* C30: a mount or url change that finds a record for its url in the
\* registry, in any status, creates no record and no script element and
\* appends nothing; when the record is loading with an empty subscriber set
\* the component becomes its only subscriber and waits for the same element.
C30_ExistingRecordNeverRefetched ==
    [][\A k \in Urls : \A c \in Consumers :
          LET r == scriptStates[k] IN
          SubscribesTo(c, k) /\ r # None
          => /\ nextRec' = nextRec
             /\ inflight' = inflight
             /\ CreatedNext(k) = Created(k)
             /\ scriptStates'[k] = r
             /\ {q \in head' : records'[q].src = k} = {q \in head : records[q].src = k}
             /\ records[r].status = "loading" /\ records[r].subscribers = {}
                  => /\ records'[r].subscribers = {c}
                     /\ view'[c] = LoadingView
                     /\ r \in inflight'
      ]_vars

\* Only one element was ever created; its record is loaded, and a component
\* that came to the url after the load shows it loaded without being one of
\* the record's subscribers.
C30_Witness ==
    \E k \in Urls : \E c \in Consumers :
        /\ nextRec = 2
        /\ scriptStates[k] = 1
        /\ records[1].status = "loaded"
        /\ head = {1}
        /\ mounted[c] /\ scriptUrl[c] = k /\ view[c] = LoadedView
        /\ c \notin records[1].subscribers

\* C31 (as claimed): with two components on one url k, in every order of
\* their mounts and the load event: once both use k and k's fetch has
\* succeeded both views are loaded; when one of the two stops using k the
\* element stays attached and the record stays in the registry; when the
\* remaining one stops using k after the load the element is detached and
\* the record removed in that step.
C31_TwoConsumersScenario ==
    [][\A k \in Urls : \A c \in Consumers : \A d \in Consumers \ {c} :
          LET r == LastCreated(k) IN
          /\ ( /\ InterestedIn(k) = {c, d}
               /\ r # None /\ records[r].status = "loaded" )
             => /\ view[c] = LoadedView /\ view[d] = LoadedView
                /\ scriptStates[k] = r /\ r \in head
          /\ ( /\ InterestedIn(k) = {c, d}
               /\ r # None
               /\ UnsubscribesFrom(c, k) /\ StaysOn(d, k) )
             => /\ scriptStates'[k] = r
                /\ r \in head'
          /\ ( /\ InterestedIn(k) = {c}
               /\ r # None /\ records[r].status = "loaded"
               /\ view[c] = LoadedView
               /\ UnsubscribesFrom(c, k) )
             => /\ r \in head /\ r \notin head'
                /\ scriptStates[k] = r /\ scriptStates'[k] = None
      ]_vars

\* C32: a record for url k is in the registry if and only if a script
\* element with src k is attached to document.head, and that element is the
\* record's own: it is appended in the step that puts the record in the
\* registry and detached in the step that deletes it, and an element that
\* was detached is never attached again.
C32_RecordIffElementAttached ==
    [][\A k \in Urls :
          /\ scriptStates'[k] # None <=> \E r \in head' : records'[r].src = k
          /\ \A r \in RecIds :
                /\ r \in head' /\ r \notin head
                   <=> scriptStates'[records'[r].src] = r /\ scriptStates[records'[r].src] # r
                /\ r \in head /\ r \notin head'
                   <=> scriptStates[records[r].src] = r /\ scriptStates'[records[r].src] # r
                /\ r \notin head /\ records[r].status # "none" => r \notin head'
      ]_vars

\* The element of one url was detached with its record and the url has no
\* record, while the other url has a record and an attached element.
C32_Witness ==
    \E a \in Urls : \E b \in Urls \ {a} :
        /\ scriptStates[a] = None
        /\ Created(a) # {} /\ Created(a) \cap head = {}
        /\ scriptStates[b] # None /\ scriptStates[b] \in head

\* C33 (as claimed): whenever a mounted component's view shows loaded for
\* its url k, the registry holds a loaded record for k whose element is
\* attached: no component keeps seeing loaded after the element was
\* detached or while a newer element for k is loading or has failed.
C33_LoadedViewHasLoadedRecord ==
    \A c \in Consumers : \A k \in Urls :
        mounted[c] /\ scriptUrl[c] = k /\ view[c].isLoaded
        => /\ scriptStates[k] # None
           /\ records[scriptStates[k]].status = "loaded"
           /\ scriptStates[k] \in head
           /\ LastCreated(k) = scriptStates[k]

\* C34: a load or error event writes only the views of components that are
\* mounted with the completed url; after every step each member of a
\* subscriber set is mounted with the record's url, so a component that
\* unmounted or changed its url is in no subscriber set of the old url and
\* later events of the old url leave its view alone.
C34_EventsReachOnlyCurrentUsers ==
    [][/\ \A r \in RecIds : \A c \in Consumers :
            /\ c \in records'[r].subscribers
               => mounted'[c] /\ scriptUrl'[c] = records'[r].src
            /\ Completes(r) /\ view'[c] # view[c]
               => mounted[c] /\ scriptUrl[c] = records[r].src
       /\ \A k \in Urls : \A c \in Consumers :
            UnsubscribesFrom(c, k)
            => \A r \in Created(k) : c \notin records'[r].subscribers
      ]_vars

\* A url completed after its only user changed to the other url: the record
\* has no subscriber and the component still waits for the other url.
C34_Witness ==
    \E a \in Urls : \E b \in Urls \ {a} : \E c \in Consumers :
        /\ scriptStates[a] # None
        /\ records[scriptStates[a]].status \in {"loaded", "error"}
        /\ records[scriptStates[a]].subscribers = {}
        /\ mounted[c] /\ scriptUrl[c] = b /\ view[c] = LoadingView
        /\ \A d \in Consumers \ {c} : ~mounted[d]
        /\ scriptStates[a] < scriptStates[b]

\* C35: when component c stops using url k (unmount or url change), the
\* only things of the old url that change are the subscriber set of k's
\* record, which loses c, and possibly the record's place in the registry
\* with its element's attachment; the view of every other component is
\* unchanged, and so are the records, registry entries and elements of
\* every url other than k and the url c changes to; when c changes to no
\* url at all nothing is created and no pending event is cancelled.
C35_UnsubscribeTouchesOnlyOldKey ==
    [][\A k \in Urls : \A c \in Consumers :
          LET r == scriptStates[k]
              new == IF mounted'[c] THEN scriptUrl'[c] ELSE "NULL"
          IN
          UnsubscribesFrom(c, k)
          => /\ \A d \in Consumers \ {c} : view'[d] = view[d]
             /\ r # None
                => records'[r] = [records[r] EXCEPT !.subscribers = @ \ {c}]
             /\ \A q \in Created(k) \ {r} : records'[q] = records[q]
             /\ \A q \in RecIds :
                   records'[q].src \notin {k, new}
                   => /\ records'[q] = records[q]
                      /\ q \in head' <=> q \in head
             /\ \A q \in RecIds \ {r} : q \in head => q \in head'
             /\ \A j \in Urls \ {k, new} : scriptStates'[j] = scriptStates[j]
             /\ new \notin Urls
                => /\ nextRec' = nextRec
                   /\ inflight' = inflight
                   /\ head' \subseteq head
                   /\ \A j \in Urls \ {k} : scriptStates'[j] = scriptStates[j]
                   /\ \A q \in RecIds \ {r} : records'[q] = records[q]
      ]_vars

\* The last user of a loaded url left and that url's record was removed,
\* while the completed record of the other url, which nobody uses, is still
\* in the registry with its element attached.
C35_Witness ==
    \E a \in Urls : \E b \in Urls \ {a} :
        /\ scriptStates[a] = None
        /\ \E r \in Created(a) : records[r].status = "loaded" /\ r \notin head
        /\ scriptStates[b] # None
        /\ records[scriptStates[b]].status \in {"loaded", "error"}
        /\ records[scriptStates[b]].subscribers = {}
        /\ scriptStates[b] \in head
        /\ \A c \in Consumers : ~mounted[c] \/ scriptUrl[c] \in FalsyUrls

====
